---- MODULE Spec2Model ----
(***************************************************************************)
(* Model of the Modbus protocol client of src/src/modbus/client.rs:        *)
(* ModbusClient { device, ctx: Option<Context> } with connect,             *)
(* read_registers, write_registers and disconnect.  The tokio-modbus       *)
(* transport is the environment: every transport call the client issues    *)
(* is recorded in `calls`, and the transport's answer (raced against the   *)
(* client's timer) is an input of the action.                              *)
(***************************************************************************)
EXTENDS Integers, Sequences, FiniteSets, TLC

(* ---- bounds of the model ---- *)
MaxLen == 2
MaxCtx == 3
MaxClients == 2
MaxGateways == 2
MaxStations == 2

(* ---- value domains of the inputs ---- *)
MaxU16 == 65535

\* function_code: u8 -- every supported code, and one outside both sets
FunctionCodes == {1, 2, 3, 4, 5, 6, 15, 16, 17}

\* address: u16
Addresses == {0, MaxU16}

\* quantity: u16
Quantities == 0..MaxLen

\* the elements of values: Vec<u16>, and of a register response
Words == {0, 2}

SeqsUpTo(S, n) == UNION {[1..k -> S] : k \in 0..n}

\* values: Vec<u16>
ValueSeqs == SeqsUpTo(Words, MaxLen)

\* ModbusDevice { ip, port, slave_id }; ip is held as its dot-separated parts
Devices ==
    { [ip |-> <<10, 0, 0, 5>>, port |-> 502, slave_id |-> 3],
      [ip |-> <<256, 0, 0, 1>>, port |-> 0, slave_id |-> 1] }

\* ctx: None
NoCtx == 0

(* ---- what the transport answers ---- *)
\* tokio::time::timeout(d, call).await is one of
\*   Err(Elapsed)                    kind "timeout"
\*   Ok(Err(tokio_modbus::Error))    kind "error"
\*   Ok(Ok(Err(ExceptionCode)))      kind "exception"
\*   Ok(Ok(Ok(data)))                kind "ok"
Resp(k, d) == [kind |-> k, data |-> d]

NoResp == Resp("none", <<>>)

FailKinds == {"timeout", "error", "exception"}

BitResponses ==
    {Resp(k, <<>>) : k \in FailKinds} \cup {Resp("ok", d) : d \in SeqsUpTo(BOOLEAN, MaxLen)}

WordResponses ==
    {Resp(k, <<>>) : k \in FailKinds} \cup {Resp("ok", d) : d \in SeqsUpTo(Words, MaxLen)}

ReadResponses(function_code) ==
    IF function_code \in {1, 2} THEN BitResponses ELSE WordResponses

WriteResponses == {Resp(k, <<>>) : k \in FailKinds \cup {"ok"}}

ConnectResponses == {Resp(k, <<>>) : k \in {"timeout", "error", "ok"}}

DisconnectResponses == {Resp(k, <<>>) : k \in {"error", "ok"}}

(* ---- what a call hands back to its caller ---- *)
\* the Box<dyn Error> values of the client, by the kind of the error
NotConnectedError == "NotConnectedError"
UnsupportedFunctionError == "UnsupportedFunctionError"
InvalidArgumentError == "InvalidArgumentError"
TimeoutError == "TimeoutError"
ProtocolError == "ProtocolError"
ConnectionError == "ConnectionError"

Ok(v) == [kind |-> "Ok", err |-> "", value |-> v]

Err(e) == [kind |-> "Err", err |-> e, value |-> <<>>]

\* expect() on an Err, or an index out of bounds: the call does not return
Panic == [kind |-> "Panic", err |-> "", value |-> <<>>]

\* a transport call: the context it is made on, the operation, its
\* arguments and the deadline (seconds) it is raced against (0: none)
Call(c, o, a, x, t) == [ctx |-> c, op |-> o, address |-> a, arg |-> x, timeout |-> t]

\* the effect of one client call: the new self.ctx, the transport calls
\* issued, and the value returned
Ret(c, cs, r) == [ctx |-> c, calls |-> cs, result |-> r]

\* the client: its device and context; the transport: contexts created so
\* far, and the Context values in existence with the client instance that
\* owns each; the last call, the transport calls it issued and what it
\* returned; client counts the ModbusClient instances constructed
VARIABLES device, ctx, nextCtx, last, calls, result, client, live

\* main: config.gateways, the positions of the two loops and of the loop body
VARIABLES config, gi, si, pc

dvars == <<config, gi, si, pc>>

vars == <<device, ctx, nextCtx, last, calls, result, client, live, config, gi, si, pc>>


(* ---- ModbusClient::connect ---- *)
\* format!("{}:{}", ip, port).parse(): a socket address needs four parts,
\* each a u8; any u16 port parses
ParseSocketAddr(dev) ==
    /\ Len(dev.ip) = 4
    /\ \A i \in 1..4 : dev.ip[i] \in 0..255
    /\ dev.port \in 0..MaxU16

\* connect_match awaiting the transport with no deadline: whatever it
\* eventually returns is taken
connect_match_nodeadline(self_ctx, fresh, cs, resp) ==
    CASE resp.kind = "error" -> Ret(self_ctx, cs, Err(ConnectionError))
      [] OTHER -> Ret(fresh, cs, Ok(<<>>))

\* the match on timeout(5s, tcp::connect_slave(..)).await
connect_match(self_ctx, fresh, cs, resp) ==
    CASE resp.kind = "ok" -> Ret(fresh, cs, Ok(<<>>))
      [] resp.kind = "error" -> Ret(self_ctx, cs, Err(ConnectionError))
      [] OTHER -> Ret(self_ctx, cs, Err(TimeoutError))

\* connect awaiting connect_slave itself, with no timeout around it
connect_untimed(self_ctx, dev, fresh, resp) ==
    IF ~ParseSocketAddr(dev)
    THEN Ret(self_ctx, <<>>, Err(ConnectionError))
    ELSE connect_match(self_ctx, fresh,
                       <<Call(NoCtx, "connect_slave", <<dev.ip, dev.port>>, dev.slave_id, 0)>>,
                       resp)

\* connect taking the old context out of self.ctx before it tries
connect_takes(self_ctx, dev, fresh, resp) ==
    IF ~ParseSocketAddr(dev)
    THEN Ret(NoCtx, <<>>, Err(ConnectionError))
    ELSE connect_match(NoCtx, fresh,
                       <<Call(NoCtx, "connect_slave", <<dev.ip, dev.port>>, dev.slave_id, 5)>>,
                       resp)

connect(self_ctx, dev, fresh, resp) ==
    IF ~ParseSocketAddr(dev)
    THEN Ret(self_ctx, <<>>, Err(ConnectionError))
    ELSE connect_match(self_ctx, fresh,
                       <<Call(NoCtx, "connect_slave", <<dev.ip, dev.port>>, dev.slave_id, 5)>>,
                       resp)

(* ---- ModbusOperation::read_registers ---- *)
\* Widen with the two values exchanged
Widen_inverted(bits) == [i \in 1..Len(bits) |-> IF bits[i] THEN 0 ELSE 1]

\* .map(|b| if b { 1 } else { 0 }).collect()
Widen(bits) == [i \in 1..Len(bits) |-> IF bits[i] THEN 1 ELSE 0]

\* .into_iter().flatten() on the Result<Vec<bool>, ExceptionCode> that
\* expect() leaves: the elements of the Ok vector, nothing for an Err
Flatten(resp) == IF resp.kind = "ok" THEN resp.data ELSE <<>>

\* timeout(secs, call).await?.expect(..) followed by the widening
read_bits(self_ctx, op, address, quantity, secs, resp) ==
    LET cs == <<Call(self_ctx, op, address, quantity, secs)>>
    IN  CASE resp.kind = "timeout" -> Ret(self_ctx, cs, Err(TimeoutError))
          [] resp.kind = "error" -> Ret(self_ctx, cs, Panic)
          [] OTHER -> Ret(self_ctx, cs, Ok(Widen(Flatten(resp))))

\* read_words dropping the context when the wait times out
read_words_reset(self_ctx, op, address, quantity, secs, resp) ==
    LET cs == <<Call(self_ctx, op, address, quantity, secs)>>
    IN  CASE resp.kind = "timeout" -> Ret(NoCtx, cs, Err(TimeoutError))
          [] resp.kind = "error" -> Ret(self_ctx, cs, Panic)
          [] resp.kind = "exception" -> Ret(self_ctx, cs, Err(ProtocolError))
          [] OTHER -> Ret(self_ctx, cs, Ok(resp.data))

\* timeout(secs, call).await?.expect(..) followed by `match result`
read_words(self_ctx, op, address, quantity, secs, resp) ==
    LET cs == <<Call(self_ctx, op, address, quantity, secs)>>
    IN  CASE resp.kind = "timeout" -> Ret(self_ctx, cs, Err(TimeoutError))
          [] resp.kind = "error" -> Ret(self_ctx, cs, Panic)
          [] resp.kind = "exception" -> Ret(self_ctx, cs, Err(ProtocolError))
          [] OTHER -> Ret(self_ctx, cs, Ok(resp.data))

\* read_match with the same 5 second deadline in every branch
read_match_5s(self_ctx, function_code, address, quantity, resp) ==
    CASE function_code = 1 ->
           read_bits(self_ctx, "read_coils", address, quantity, 5, resp)
      [] function_code = 2 ->
           read_bits(self_ctx, "read_discrete_inputs", address, quantity, 5, resp)
      [] function_code = 3 ->
           read_words(self_ctx, "read_holding_registers", address, quantity, 5, resp)
      [] function_code = 4 ->
           read_words(self_ctx, "read_input_registers", address, quantity, 5, resp)
      [] OTHER -> Ret(self_ctx, <<>>, Err(UnsupportedFunctionError))

\* match function_code { 0x01 .. 0x04, _ }
read_match(self_ctx, function_code, address, quantity, resp) ==
    CASE function_code = 1 ->
           read_bits(self_ctx, "read_coils", address, quantity, 5, resp)
      [] function_code = 2 ->
           read_bits(self_ctx, "read_discrete_inputs", address, quantity, 1, resp)
      [] function_code = 3 ->
           read_words(self_ctx, "read_holding_registers", address, quantity, 5, resp)
      [] function_code = 4 ->
           read_words(self_ctx, "read_input_registers", address, quantity, 5, resp)
      [] OTHER -> Ret(self_ctx, <<>>, Err(UnsupportedFunctionError))

read_registers(self_ctx, function_code, address, quantity, resp) ==
    IF self_ctx = NoCtx
    THEN Ret(self_ctx, <<>>, Err(NotConnectedError))
    ELSE read_match(self_ctx, function_code, address, quantity, resp)

(* ---- ModbusOperation::write_registers ---- *)
\* ToCoils taking only the value 1 for ON
ToCoils_one(values) == [i \in 1..Len(values) |-> values[i] = 1]

\* values.into_iter().map(|v| v >= 1).collect()
ToCoils(values) == [i \in 1..Len(values) |-> values[i] >= 1]

\* the final `match result` of write_registers
write_result(resp) ==
    CASE resp.kind = "timeout" -> Err(TimeoutError)
      [] resp.kind = "error" -> Err(ProtocolError)
      [] OTHER -> Ok(<<>>)

\* timeout(5s, call).await, then the final match
write_call(self_ctx, op, address, arg, resp) ==
    Ret(self_ctx, <<Call(self_ctx, op, address, arg, 5)>>, write_result(resp))

\* write_0x05 without the quantity check
write_0x05_unchecked(self_ctx, address, quantity, values, resp) ==
    IF Len(values) = 0 THEN Ret(self_ctx, <<>>, Panic)
    ELSE write_call(self_ctx, "write_single_coil", address, values[1] >= 1, resp)

\* 0x05: values[0] indexes the vector without a length check
write_0x05(self_ctx, address, quantity, values, resp) ==
    IF quantity # 1 THEN Ret(self_ctx, <<>>, Err(InvalidArgumentError))
    ELSE IF Len(values) = 0 THEN Ret(self_ctx, <<>>, Panic)
    ELSE write_call(self_ctx, "write_single_coil", address, values[1] >= 1, resp)

write_0x0f(self_ctx, address, quantity, values, resp) ==
    IF Len(values) # quantity THEN Ret(self_ctx, <<>>, Err(InvalidArgumentError))
    ELSE write_call(self_ctx, "write_multiple_coils", address, ToCoils(values), resp)

\* write_0x06 that also requires values to hold exactly quantity elements
write_0x06_checked(self_ctx, address, quantity, values, resp) ==
    IF quantity # 1 \/ Len(values) # quantity
    THEN Ret(self_ctx, <<>>, Err(InvalidArgumentError))
    ELSE write_call(self_ctx, "write_single_register", address, values[1], resp)

write_0x06(self_ctx, address, quantity, values, resp) ==
    IF quantity # 1 THEN Ret(self_ctx, <<>>, Err(InvalidArgumentError))
    ELSE IF Len(values) = 0 THEN Ret(self_ctx, <<>>, Panic)
    ELSE write_call(self_ctx, "write_single_register", address, values[1], resp)

write_0x10(self_ctx, address, quantity, values, resp) ==
    IF Len(values) # quantity THEN Ret(self_ctx, <<>>, Err(InvalidArgumentError))
    ELSE write_call(self_ctx, "write_multiple_registers", address, values, resp)

\* write_match whose last arm is the 0x10 branch instead of a catch-all
write_match_fallthrough(self_ctx, function_code, address, quantity, values, resp) ==
    CASE function_code = 5 -> write_0x05(self_ctx, address, quantity, values, resp)
      [] function_code = 15 -> write_0x0f(self_ctx, address, quantity, values, resp)
      [] function_code = 6 -> write_0x06(self_ctx, address, quantity, values, resp)
      [] OTHER -> write_0x10(self_ctx, address, quantity, values, resp)

\* match function_code { 0x05, 0x0f, 0x06, 0x10, _ }
write_match(self_ctx, function_code, address, quantity, values, resp) ==
    CASE function_code = 5 -> write_0x05(self_ctx, address, quantity, values, resp)
      [] function_code = 15 -> write_0x0f(self_ctx, address, quantity, values, resp)
      [] function_code = 6 -> write_0x06(self_ctx, address, quantity, values, resp)
      [] function_code = 16 -> write_0x10(self_ctx, address, quantity, values, resp)
      [] OTHER -> Ret(self_ctx, <<>>, Err(UnsupportedFunctionError))

\* write_registers dispatching before it looks at self.ctx
write_registers_dispatch_first(self_ctx, function_code, address, quantity, values, resp) ==
    IF function_code \notin {5, 6, 15, 16}
    THEN Ret(self_ctx, <<>>, Err(UnsupportedFunctionError))
    ELSE IF self_ctx = NoCtx
    THEN Ret(self_ctx, <<>>, Err(NotConnectedError))
    ELSE write_match(self_ctx, function_code, address, quantity, values, resp)

write_registers(self_ctx, function_code, address, quantity, values, resp) ==
    IF self_ctx = NoCtx
    THEN Ret(self_ctx, <<>>, Err(NotConnectedError))
    ELSE write_match(self_ctx, function_code, address, quantity, values, resp)

\* disconnect reporting a missing context as an error
disconnect_strict(self_ctx, resp) ==
    IF self_ctx # NoCtx
    THEN IF resp.kind = "error"
         THEN Ret(self_ctx, <<Call(self_ctx, "disconnect", 0, 0, 0)>>, Err(ProtocolError))
         ELSE Ret(self_ctx, <<Call(self_ctx, "disconnect", 0, 0, 0)>>, Ok(<<>>))
    ELSE Ret(self_ctx, <<>>, Err(NotConnectedError))

(* ---- ModbusOperation::disconnect ---- *)
\* self.ctx is borrowed with as_mut() and is never assigned
disconnect(self_ctx, resp) ==
    IF self_ctx # NoCtx
    THEN IF resp.kind = "error"
         THEN Ret(self_ctx, <<Call(self_ctx, "disconnect", 0, 0, 0)>>, Err(ProtocolError))
         ELSE Ret(self_ctx, <<Call(self_ctx, "disconnect", 0, 0, 0)>>, Ok(<<>>))
    ELSE Ret(self_ctx, <<>>, Ok(<<>>))

(* ---- the state machine ---- *)
\* the transport answers a call that was issued, and nothing otherwise
Answers(cs, responses) == IF cs = <<>> THEN {NoResp} ELSE responses

\* the call most recently made on the client: its arguments, the value of
\* self.ctx when it was made, and the transport's answer
LastCall(o, fc, a, q, vs, resp) ==
    [op |-> o, function_code |-> fc, address |-> a, quantity |-> q,
     values |-> vs, pre |-> ctx, resp |-> resp]

\* a panic unwinds out of the call: nothing runs after it
Running == result.kind # "Panic"

\* ModbusClient::new(device)
Init ==
    /\ device \in Devices
    /\ ctx = NoCtx
    /\ nextCtx = 0
    /\ last = [op |-> "new", function_code |-> 0, address |-> 0,
               quantity |-> 0, values |-> <<>>, pre |-> NoCtx, resp |-> NoResp]
    /\ calls = <<>>
    /\ result = [kind |-> "None", err |-> "", value |-> <<>>]
    /\ client = 1
    /\ live = {}
    /\ config = <<>> /\ gi = 0 /\ si = 0 /\ pc = "none"

\* an assignment to self.ctx drops the value the field held: instance k
\* owns the context c (if any) and nothing else
Owned(contexts, k, c) ==
    {x \in contexts : x.client # k} \cup
        (IF c = NoCtx THEN {} ELSE {[client |-> k, ctx |-> c]})

Returns(r) ==
    /\ ctx' = r.ctx
    /\ calls' = r.calls
    /\ result' = r.result
    /\ live' = Owned(live, client, r.ctx)

Connect ==
    /\ Running
    /\ \E resp \in Answers(connect(ctx, device, nextCtx + 1, NoResp).calls, ConnectResponses) :
         /\ resp.kind = "ok" => nextCtx < MaxCtx
         /\ Returns(connect(ctx, device, nextCtx + 1, resp))
         /\ nextCtx' = IF resp.kind = "ok" THEN nextCtx + 1 ELSE nextCtx
         /\ last' = LastCall("connect", 0, 0, 0, <<>>, resp)
    /\ UNCHANGED <<device, client, dvars>>

Read(function_code, address, quantity) ==
    /\ Running
    /\ \E resp \in Answers(read_registers(ctx, function_code, address, quantity, NoResp).calls,
                           ReadResponses(function_code)) :
         /\ Returns(read_registers(ctx, function_code, address, quantity, resp))
         /\ last' = LastCall("read_registers", function_code, address, quantity, <<>>, resp)
    /\ UNCHANGED <<device, nextCtx, client, dvars>>

Write(function_code, address, quantity, values) ==
    /\ Running
    /\ \E resp \in Answers(write_registers(ctx, function_code, address, quantity, values,
                                           NoResp).calls,
                           WriteResponses) :
         /\ Returns(write_registers(ctx, function_code, address, quantity, values, resp))
         /\ last' = LastCall("write_registers", function_code, address, quantity, values, resp)
    /\ UNCHANGED <<device, nextCtx, client, dvars>>

Disconnect ==
    /\ Running
    /\ \E resp \in Answers(disconnect(ctx, NoResp).calls, DisconnectResponses) :
         /\ Returns(disconnect(ctx, resp))
         /\ last' = LastCall("disconnect", 0, 0, 0, <<>>, resp)
    /\ UNCHANGED <<device, nextCtx, client, dvars>>

Next ==
    \/ Connect
    \/ \E fc \in FunctionCodes, a \in Addresses, q \in Quantities : Read(fc, a, q)
    \/ \E fc \in FunctionCodes, a \in Addresses, q \in Quantities, vs \in ValueSeqs :
         Write(fc, a, q, vs)
    \/ Disconnect

Spec == Init /\ [][Next]_vars

(* ---- several client instances ---- *)
\* the state of a client that ModbusClient::new has just returned
NoCall ==
    [op |-> "new", function_code |-> 0, address |-> 0,
     quantity |-> 0, values |-> <<>>, pre |-> NoCtx, resp |-> NoResp]

\* ModbusClient::new(device) once more: the calls that follow are made on
\* the new instance, the earlier ones stay as they are
NewClient ==
    /\ Running
    /\ client < MaxClients
    /\ client' = client + 1
    /\ device' \in Devices
    /\ ctx' = NoCtx
    /\ last' = NoCall
    /\ calls' = <<>>
    /\ result' = [kind |-> "None", err |-> "", value |-> <<>>]
    /\ UNCHANGED <<nextCtx, live, dvars>>

NextClients ==
    \/ NewClient
    \/ Connect
    \/ \E fc \in {3, 17} : Read(fc, 0, 1)
    \/ \E fc \in {6, 17} : Write(fc, 0, 1, <<2>>)
    \/ Disconnect

SpecClients == Init /\ [][NextClients]_vars

TypeOK ==
    /\ ctx \in 0..MaxCtx
    /\ nextCtx \in 0..MaxCtx
    /\ result.kind \in {"None", "Ok", "Err", "Panic"}
    /\ Len(calls) <= 1

(* ---- writes over a wider range of values ---- *)
\* values: Vec<u16> with the smallest, the largest and some other elements
WideWords == {0, 1, 2, 255, MaxU16}

WideSeqs == SeqsUpTo(WideWords, MaxLen)

\* one connect, then writes whose quantity fits the rule of their code
NextValues ==
    \/ ctx = NoCtx /\ Connect
    \/ \E fc \in {5, 6, 15, 16}, vs \in WideSeqs :
         Write(fc, 0, IF fc \in {5, 6} THEN 1 ELSE Len(vs), vs)

SpecValues == Init /\ [][NextValues]_vars

(* ---- a call as two steps: it awaits the transport, then returns ---- *)
\* the caller is suspended in the .await of a transport call
Pending == [kind |-> "Pending", err |-> "", value |-> <<>>]

Awaited == result.kind = "Pending"

Timeout == Resp("timeout", <<>>)

\* what the suspended call returns for an outcome of its await
Handler(resp) ==
    CASE last.op = "connect" -> connect(ctx, device, nextCtx + 1, resp)
      [] last.op = "read_registers" ->
           read_registers(ctx, last.function_code, last.address, last.quantity, resp)
      [] last.op = "write_registers" ->
           write_registers(ctx, last.function_code, last.address, last.quantity,
                           last.values, resp)
      [] OTHER -> disconnect(ctx, resp)

\* what the transport can answer to the suspended call
Responses ==
    CASE last.op = "connect" -> ConnectResponses
      [] last.op = "read_registers" -> ReadResponses(last.function_code)
      [] last.op = "write_registers" -> WriteResponses
      [] OTHER -> DisconnectResponses

\* a call is made: it returns at once when it issues no transport call (r is
\* what it does up to its await), and is suspended otherwise
Begin(o, fc, a, q, vs, r) ==
    /\ Running /\ ~Awaited
    /\ IF r.calls = <<>>
       THEN /\ Returns(r)
            /\ last' = LastCall(o, fc, a, q, vs, NoResp)
       ELSE /\ calls' = r.calls
            /\ result' = Pending
            /\ last' = LastCall(o, fc, a, q, vs, Resp("pending", <<>>))
            /\ UNCHANGED <<ctx, live>>
    /\ UNCHANGED <<device, nextCtx, client, dvars>>

BeginConnect ==
    /\ nextCtx < MaxCtx
    /\ Begin("connect", 0, 0, 0, <<>>, connect(ctx, device, nextCtx + 1, NoResp))

BeginRead(function_code, quantity) ==
    Begin("read_registers", function_code, 0, quantity, <<>>,
          read_registers(ctx, function_code, 0, quantity, NoResp))

BeginWrite(function_code, quantity, values) ==
    Begin("write_registers", function_code, 0, quantity, values,
          write_registers(ctx, function_code, 0, quantity, values, NoResp))

BeginDisconnect ==
    Begin("disconnect", 0, 0, 0, <<>>, disconnect(ctx, NoResp))

\* the transport call completes before the deadline
TransportAnswers ==
    /\ Awaited
    /\ \E resp \in Responses \ {Timeout} :
         /\ Returns(Handler(resp))
         /\ last' = [last EXCEPT !.resp = resp]
         /\ nextCtx' = IF last.op = "connect" /\ resp.kind = "ok"
                       THEN nextCtx + 1 ELSE nextCtx
    /\ UNCHANGED <<device, client, dvars>>

\* the deadline of tokio::time::timeout passes first
TimerFires ==
    /\ Awaited
    /\ calls[1].timeout > 0
    /\ Returns(Handler(Timeout))
    /\ last' = [last EXCEPT !.resp = Timeout]
    /\ UNCHANGED <<device, nextCtx, client, dvars>>

NextLive ==
    \/ BeginConnect
    \/ \E fc \in FunctionCodes, q \in Quantities : BeginRead(fc, q)
    \/ \E fc \in FunctionCodes, q \in Quantities, vs \in ValueSeqs : BeginWrite(fc, q, vs)
    \/ BeginDisconnect
    \/ TransportAnswers
    \/ TimerFires

\* the runtime's timer wakes a timeout future whose deadline has passed
SpecLive == Init /\ [][NextLive]_vars /\ WF_vars(TimerFires)

(* ---- main: the session driver ---- *)
\* a gateway of the configuration: { ip, port, slave_ids }
Gateways ==
    { [ip |-> d.ip, port |-> d.port, slave_ids |-> [i \in 1..k |-> i]] :
          d \in Devices, k \in 0..MaxStations }

\* config.gateways as read_config returns it
Configs == SeqsUpTo(Gateways, MaxGateways)

\* ClientModbusDevice { ip, port, slave_id } of station s of gateway g
EndpointDevice(g, s) ==
    [ip |-> config[g].ip, port |-> config[g].port, slave_id |-> config[g].slave_ids[s]]

NoResult == [kind |-> "None", err |-> "", value |-> <<>>]

InitDriver ==
    /\ config \in Configs
    /\ gi = 1 /\ si = 1 /\ pc = "start"
    /\ client = 0
    /\ device = [ip |-> <<>>, port |-> 0, slave_id |-> 0]
    /\ ctx = NoCtx
    /\ nextCtx = 0
    /\ live = {}
    /\ last = NoCall
    /\ calls = <<>>
    /\ result = NoResult

\* if config.gateways.is_empty() { return Ok(()) }
DStart ==
    /\ pc = "start"
    /\ pc' = IF config = <<>> THEN "done" ELSE "gateway"
    /\ UNCHANGED <<device, ctx, nextCtx, last, calls, result, client, live, config, gi, si>>

\* for gateway in &config.gateways; after the last one main returns Ok(())
DGateway ==
    /\ pc = "gateway"
    /\ IF gi > Len(config)
       THEN pc' = "done" /\ si' = si
       ELSE pc' = "station" /\ si' = 1
    /\ UNCHANGED <<device, ctx, nextCtx, last, calls, result, client, live, config, gi>>

\* for &slave_id in &gateway.slave_ids: the client of the iteration before
\* has gone out of scope; a device and a client are made for the station
DStation ==
    /\ pc = "station"
    /\ ctx' = NoCtx
    /\ live' = Owned(live, client, NoCtx)
    /\ IF si > Len(config[gi].slave_ids)
       THEN /\ gi' = gi + 1
            /\ pc' = "gateway"
            /\ UNCHANGED <<device, client, last, calls, result>>
       ELSE /\ device' = EndpointDevice(gi, si)
            /\ client' = client + 1
            /\ last' = NoCall
            /\ calls' = <<>>
            /\ result' = NoResult
            /\ pc' = "connect"
            /\ gi' = gi
    /\ UNCHANGED <<nextCtx, config, si>>

\* connect failing without a second attempt being skipped: it is made again
AfterConnect_retry(res) == IF res.kind = "Ok" THEN "read04" ELSE "connect"

\* match client.connect().await: Err(e) => continue
AfterConnect(res) == IF res.kind = "Ok" THEN "read04" ELSE "station"

\* a call that panics unwinds out of main; any other result is printed
AfterCall(res, next) == IF res.kind = "Panic" THEN "aborted" ELSE next

DConnect ==
    /\ pc = "connect"
    /\ \E resp \in Answers(connect(ctx, device, nextCtx + 1, NoResp).calls, ConnectResponses) :
         /\ Returns(connect(ctx, device, nextCtx + 1, resp))
         /\ nextCtx' = IF resp.kind = "ok" THEN nextCtx + 1 ELSE nextCtx
         /\ last' = LastCall("connect", 0, 0, 0, <<>>, resp)
         /\ pc' = AfterConnect(connect(ctx, device, nextCtx + 1, resp).result)
    /\ si' = IF pc' = "station" THEN si + 1 ELSE si
    /\ UNCHANGED <<device, client, config, gi>>

\* sleep(100ms), then client.read_registers(0x04, 0, 4)
DRead04 ==
    /\ pc = "read04"
    /\ \E resp \in Answers(read_registers(ctx, 4, 0, 4, NoResp).calls, ReadResponses(4)) :
         /\ Returns(read_registers(ctx, 4, 0, 4, resp))
         /\ last' = LastCall("read_registers", 4, 0, 4, <<>>, resp)
         /\ pc' = AfterCall(read_registers(ctx, 4, 0, 4, resp).result, "read03")
    /\ UNCHANGED <<device, nextCtx, client, config, gi, si>>

\* client.read_registers(0x03, 0, 4)
DRead03 ==
    /\ pc = "read03"
    /\ \E resp \in Answers(read_registers(ctx, 3, 0, 4, NoResp).calls, ReadResponses(3)) :
         /\ Returns(read_registers(ctx, 3, 0, 4, resp))
         /\ last' = LastCall("read_registers", 3, 0, 4, <<>>, resp)
         /\ pc' = AfterCall(read_registers(ctx, 3, 0, 4, resp).result, "write")
    /\ UNCHANGED <<device, nextCtx, client, config, gi, si>>

\* client.write_registers(0x0F, 0, 4, vec![1, 1, 1, 1])
DWrite ==
    /\ pc = "write"
    /\ \E resp \in Answers(write_registers(ctx, 15, 0, 4, <<1, 1, 1, 1>>, NoResp).calls,
                           WriteResponses) :
         /\ Returns(write_registers(ctx, 15, 0, 4, <<1, 1, 1, 1>>, resp))
         /\ last' = LastCall("write_registers", 15, 0, 4, <<1, 1, 1, 1>>, resp)
         /\ pc' = AfterCall(write_registers(ctx, 15, 0, 4, <<1, 1, 1, 1>>, resp).result,
                            "disconnect")
    /\ UNCHANGED <<device, nextCtx, client, config, gi, si>>

\* client.disconnect(), the end of the loop body
DDisconnect ==
    /\ pc = "disconnect"
    /\ \E resp \in Answers(disconnect(ctx, NoResp).calls, DisconnectResponses) :
         /\ Returns(disconnect(ctx, resp))
         /\ last' = LastCall("disconnect", 0, 0, 0, <<>>, resp)
         /\ pc' = AfterCall(disconnect(ctx, resp).result, "station")
    /\ si' = si + 1
    /\ UNCHANGED <<device, nextCtx, client, config, gi>>

NextDriver ==
    \/ DStart
    \/ DGateway
    \/ DStation
    \/ DConnect
    \/ DRead04
    \/ DRead03
    \/ DWrite
    \/ DDisconnect

SpecDriver == InitDriver /\ [][NextDriver]_vars

\* main runs on: every call it awaits returns, and a step that can be taken
\* is taken
SpecDriverFair == InitDriver /\ [][NextDriver]_vars /\ WF_vars(NextDriver)

(* ---- properties ---- *)
IsRead == last.op = "read_registers"

IsWrite == last.op = "write_registers"

ReadCodes == {1, 2, 3, 4}

WriteCodes == {5, 6, 15, 16}

\* C1: a read or write made while self.ctx is None returns the not-connected
\* error, whatever the function code and arguments: no panic, no transport
\* call, and the client stays without a context.
C1_NotConnectedFirst ==
    ((IsRead \/ IsWrite) /\ last.pre = NoCtx) =>
        /\ result = Err(NotConnectedError)
        /\ calls = <<>>
        /\ ctx = NoCtx

\* a write with an unsupported code, a quantity and values that fit no rule,
\* made on a client that has no context
C1_Witness ==
    /\ IsWrite /\ last.pre = NoCtx
    /\ last.function_code = 17 /\ last.quantity = 2 /\ last.values = <<2>>

\* C2: once disconnect() has returned on a connected client the client has no
\* context, and the read or write that follows fails with the not-connected
\* error without a transport call.
C2_DisconnectReleases ==
    [][ /\ (last'.op = "disconnect" /\ ctx # NoCtx) => ctx' = NoCtx
        /\ (last.op = "disconnect" /\ last'.op \in {"read_registers", "write_registers"}) =>
              (result' = Err(NotConnectedError) /\ calls' = <<>>) ]_vars

\* C3: on a connected client a write whose quantity or values break the rule
\* of its function code fails with InvalidArgumentError and issues no
\* transport call.
C3_ValidationBeforeIO ==
    (IsWrite /\ last.pre # NoCtx /\
       \/ last.function_code \in {5, 6} /\ last.quantity # 1
       \/ last.function_code \in {15, 16} /\ Len(last.values) # last.quantity) =>
        /\ result = Err(InvalidArgumentError)
        /\ calls = <<>>

\* a single-coil write with quantity 2, and values the transport could take
C3_Witness ==
    /\ IsWrite /\ last.pre # NoCtx
    /\ last.function_code = 5 /\ last.quantity = 2 /\ last.values = <<2, 0>>
    /\ last.address = MaxU16

\* C4: a read whose request the device answers with an exception response
\* returns a ProtocolError, never a success value.
C4_ReadExceptionIsError ==
    (IsRead /\ last.function_code \in ReadCodes /\ last.resp.kind = "exception") =>
        result = Err(ProtocolError)

\* C5: a valid write maps the transport's outcomes one to one: acknowledged
\* gives success, a failure reported within the window gives ProtocolError,
\* an elapsed deadline gives TimeoutError.
C5_WriteOutcomes ==
    (IsWrite /\ last.resp.kind # "none") =>
        /\ last.resp.kind = "ok" => result = Ok(<<>>)
        /\ last.resp.kind \in {"error", "exception"} => result = Err(ProtocolError)
        /\ last.resp.kind = "timeout" => result = Err(TimeoutError)

\* C6: no call panics: every call returns a success or an error value.
C6_NeverPanics == result.kind # "Panic"

\* C7: connect() returns Ok exactly when the address parses and the session
\* is established before the deadline, and only then stores a context; a
\* parse or transport failure gives ConnectionError, an elapsed deadline
\* TimeoutError, and both leave self.ctx as it was.
C7_ConnectOutcomes ==
    last.op = "connect" =>
        /\ (result = Ok(<<>>)) <=> (ParseSocketAddr(device) /\ last.resp.kind = "ok")
        /\ result = Ok(<<>>) => (ctx # NoCtx /\ ctx # last.pre)
        /\ (~ParseSocketAddr(device) \/ last.resp.kind = "error") =>
              (result = Err(ConnectionError) /\ ctx = last.pre)
        /\ last.resp.kind = "timeout" => (result = Err(TimeoutError) /\ ctx = last.pre)
        /\ ~ParseSocketAddr(device) => calls = <<>>

\* the first connect of a client ran into its deadline
C7_Witness ==
    /\ last.op = "connect" /\ last.resp.kind = "timeout"
    /\ last.pre = NoCtx /\ ctx = NoCtx /\ nextCtx = 0

\* C8: on a connected client each read code issues exactly one call of its
\* own transport operation with the caller's address and quantity, under a
\* deadline of 1 second for 0x02 and 5 seconds for the others; any other code
\* returns UnsupportedFunctionError and issues no call.
C8_ReadDispatch ==
    (IsRead /\ last.pre # NoCtx) =>
        /\ last.function_code = 1 =>
              calls = <<Call(last.pre, "read_coils", last.address, last.quantity, 5)>>
        /\ last.function_code = 2 =>
              calls = <<Call(last.pre, "read_discrete_inputs", last.address, last.quantity, 1)>>
        /\ last.function_code = 3 =>
              calls = <<Call(last.pre, "read_holding_registers", last.address, last.quantity, 5)>>
        /\ last.function_code = 4 =>
              calls = <<Call(last.pre, "read_input_registers", last.address, last.quantity, 5)>>
        /\ last.function_code \notin ReadCodes =>
              (result = Err(UnsupportedFunctionError) /\ calls = <<>>)

\* a discrete-input read at the highest address that the device answered
C8_Witness ==
    /\ IsRead /\ last.pre # NoCtx
    /\ last.function_code = 2 /\ last.address = MaxU16 /\ last.quantity = 2
    /\ result = Ok(<<1, 0>>)

\* C9: on a connected client a write with a code outside {0x05, 0x06, 0x0F,
\* 0x10} returns UnsupportedFunctionError with no transport call and no
\* validation of quantity or values; a read with a code outside
\* {0x01..0x04} returns the same error.
C9_WriteUnsupported ==
    /\ (IsWrite /\ last.pre # NoCtx /\ last.function_code \notin WriteCodes) =>
          (result = Err(UnsupportedFunctionError) /\ calls = <<>>)
    /\ (IsRead /\ last.pre # NoCtx /\ last.function_code \notin ReadCodes) =>
          result = Err(UnsupportedFunctionError)

\* a write with a read code, whose values do not match its quantity
C9_Witness ==
    /\ IsWrite /\ last.pre # NoCtx
    /\ last.function_code = 3 /\ last.quantity = 2 /\ last.values = <<2>>

\* C10: a read or a write, whatever it returns, leaves self.ctx as it was,
\* and no call other than disconnect() takes a context away from the client.
C10_ReadWriteKeepCtx ==
    [][ /\ last'.op \in {"read_registers", "write_registers"} => ctx' = ctx
        /\ (ctx # NoCtx /\ ctx' = NoCtx) => last'.op = "disconnect" ]_vars

\* a register read on a connected client ran into its deadline
C10_Witness ==
    /\ IsRead /\ last.pre # NoCtx /\ last.function_code = 3
    /\ result = Err(TimeoutError) /\ ctx = last.pre

\* C11: when the session close fails, disconnect() on a connected client
\* returns the failure and the client has no context afterward; the
\* disconnect() that follows returns Ok and issues no close call.
C11_FailedCloseReleases ==
    [][ /\ (last'.op = "disconnect" /\ ctx # NoCtx /\ last'.resp.kind = "error") =>
              (result'.kind = "Err" /\ ctx' = NoCtx)
        /\ (last.op = "disconnect" /\ last.resp.kind = "error" /\ last'.op = "disconnect") =>
              (result' = Ok(<<>>) /\ calls' = <<>>) ]_vars

\* C12: disconnect() on a client that has no context returns Ok, issues no
\* transport call and leaves the client without a context.
C12_DisconnectNoop ==
    (last.op = "disconnect" /\ last.pre = NoCtx) =>
        /\ result = Ok(<<>>)
        /\ calls = <<>>
        /\ ctx = NoCtx

\* disconnect() was called on a client that never got a context
C12_Witness ==
    /\ last.op = "disconnect" /\ last.pre = NoCtx /\ nextCtx = 0
    /\ result = Ok(<<>>)

\* C15: a read the transport answered with data returns, for 0x01 and 0x02,
\* one 16-bit value per boolean in the same order, 1 for true and 0 for
\* false, and for 0x03 and 0x04 the transport's sequence itself.
C15_ReadShaping ==
    (IsRead /\ last.resp.kind = "ok") =>
        /\ result.kind = "Ok"
        /\ Len(result.value) = Len(last.resp.data)
        /\ last.function_code \in {1, 2} =>
              \A i \in 1..Len(last.resp.data) :
                  /\ last.resp.data[i] => result.value[i] = 1
                  /\ ~last.resp.data[i] => result.value[i] = 0
        /\ last.function_code \in {3, 4} => result.value = last.resp.data

\* a coil read whose answer holds both boolean values
C15_Witness ==
    /\ IsRead /\ last.function_code = 1
    /\ last.resp.kind = "ok" /\ last.resp.data = <<TRUE, FALSE>>
    /\ result = Ok(<<1, 0>>)

\* C19: on a connected client a 0x05 or 0x06 write with quantity 1 and at
\* least one value issues exactly one transport call that carries the first
\* value only (as the boolean values[0] >= 1 for 0x05), however many values
\* were passed.
C19_SingleWriteFirstValue ==
    (IsWrite /\ last.pre # NoCtx /\ last.function_code \in {5, 6}
       /\ last.quantity = 1 /\ Len(last.values) >= 1) =>
        /\ Len(calls) = 1
        /\ calls[1].ctx = last.pre /\ calls[1].address = last.address
        /\ last.function_code = 5 =>
              /\ calls[1].op = "write_single_coil"
              /\ calls[1].arg = (last.values[1] # 0)
        /\ last.function_code = 6 =>
              /\ calls[1].op = "write_single_register"
              /\ calls[1].arg = last.values[1]

\* a single-register write that was handed two values
C19_Witness ==
    /\ IsWrite /\ last.pre # NoCtx /\ last.function_code = 6
    /\ last.quantity = 1 /\ last.values = <<2, 0>>
    /\ calls = <<Call(last.pre, "write_single_register", last.address, 2, 5)>>

\* C16: every client instance owns at most one Context and no Context is
\* owned by two instances; a connect() that succeeds on a connected client
\* puts a new context in the place of the old one, and a connect() that
\* fails or times out leaves the context the client had.
C16_OneContextPerClient ==
    /\ [](/\ \A x, y \in live : (x.client = y.client \/ x.ctx = y.ctx) => x = y
          /\ \A x \in live : x.client = client => x.ctx = ctx
          /\ ctx # NoCtx => [client |-> client, ctx |-> ctx] \in live)
    /\ [][(last'.op = "connect" /\ ctx # NoCtx) =>
            /\ result'.kind = "Ok" =>
                  /\ ctx' # ctx
                  /\ \A x \in live : x.ctx # ctx'
                  /\ \A x \in live' : x.ctx # ctx
            /\ result'.kind = "Err" => (ctx' = ctx /\ live' = live)]_vars

\* the second instance has replaced its first context by another while the
\* first instance still owns its own
C16_Witness ==
    /\ client = 2 /\ Cardinality(live) = 2
    /\ last.op = "connect" /\ last.pre # NoCtx /\ result.kind = "Ok"

\* C14: a write that reaches the transport sends, for 0x05 and 0x0F, one
\* boolean per value in the caller's order, false for 0 and true for every
\* other value, and for 0x06 and 0x10 the values themselves.
C14_CoilMapping ==
    (IsWrite /\ calls # <<>>) =>
        /\ last.function_code = 5 =>
              /\ calls[1].op = "write_single_coil"
              /\ calls[1].arg = (last.values[1] # 0)
        /\ last.function_code = 15 =>
              /\ calls[1].op = "write_multiple_coils"
              /\ Len(calls[1].arg) = Len(last.values)
              /\ \A i \in 1..Len(last.values) : calls[1].arg[i] = (last.values[i] # 0)
        /\ last.function_code = 6 =>
              /\ calls[1].op = "write_single_register"
              /\ calls[1].arg = last.values[1]
        /\ last.function_code = 16 =>
              /\ calls[1].op = "write_multiple_registers"
              /\ calls[1].arg = last.values

\* a multiple-coil write of an OFF value and a value larger than 1
C14_Witness ==
    /\ IsWrite /\ last.function_code = 15 /\ last.values = <<0, 255>>
    /\ calls = <<Call(last.pre, "write_multiple_coils", 0, <<FALSE, TRUE>>, 5)>>

\* C13: a connect, read or write that is waiting for the transport always
\* returns, even if the transport never answers; when its deadline passes it
\* returns TimeoutError and stores no context; disconnect() is the one call
\* whose transport call has no deadline.
C13_TimeoutIsolation ==
    /\ (Awaited /\ last.op # "disconnect") ~> ~Awaited
    /\ [][(Awaited /\ last'.resp = Timeout) =>
            (result' = Err(TimeoutError) /\ ctx' = ctx /\ nextCtx' = nextCtx)]_vars
    /\ [](Awaited => (calls[1].timeout = 0 <=> last.op = "disconnect"))

\* the first connect of a client returned because its deadline passed
C13_Witness ==
    /\ last.op = "connect" /\ last.resp = Timeout /\ last.pre = NoCtx
    /\ result = Err(TimeoutError) /\ ctx = NoCtx

\* the driver made the call o(fc, a, q, vs) on the client as it stood
Issued(o, fc, a, q, vs) ==
    /\ last'.op = o /\ last'.function_code = fc /\ last'.address = a
    /\ last'.quantity = q /\ last'.values = vs /\ last'.pre = ctx
    /\ client' = client /\ device' = device /\ gi' = gi

\* C17: the driver visits the gateways in list order and the stations of a
\* gateway in list order, with a new client and one connect per station; a
\* failed connect is followed by the next station and by no other call, a
\* successful one by read(0x04,0,4), read(0x03,0,4), write(0x0F,0,4,[1,1,1,1])
\* and disconnect in that order, each made after the one before has
\* returned, and only then by the next station.
C17_DriverOrder ==
    [][ /\ pc = "start" => (pc' \in {"gateway", "done"} /\ gi' = 1 /\ last' = last)
        /\ pc = "gateway" =>
              /\ gi' = gi /\ last' = last /\ client' = client
              /\ gi <= Len(config) => (pc' = "station" /\ si' = 1)
              /\ gi > Len(config) => pc' = "done"
        /\ (pc = "station" /\ si <= Len(config[gi].slave_ids)) =>
              /\ pc' = "connect" /\ gi' = gi /\ si' = si
              /\ client' = client + 1 /\ ctx' = NoCtx /\ last'.op = "new"
              /\ device'.ip = config[gi].ip /\ device'.port = config[gi].port
              /\ device'.slave_id = config[gi].slave_ids[si]
        /\ (pc = "station" /\ si > Len(config[gi].slave_ids)) =>
              (pc' = "gateway" /\ gi' = gi + 1 /\ last' = last /\ client' = client)
        /\ pc = "connect" =>
              /\ Issued("connect", 0, 0, 0, <<>>)
              /\ result'.kind = "Ok" => (pc' = "read04" /\ si' = si)
              /\ result'.kind # "Ok" => (pc' = "station" /\ si' = si + 1)
        /\ pc = "read04" =>
              /\ Issued("read_registers", 4, 0, 4, <<>>)
              /\ pc' \in {"read03", "aborted"} /\ si' = si
        /\ pc = "read03" =>
              /\ Issued("read_registers", 3, 0, 4, <<>>)
              /\ pc' \in {"write", "aborted"} /\ si' = si
        /\ pc = "write" =>
              /\ Issued("write_registers", 15, 0, 4, <<1, 1, 1, 1>>)
              /\ pc' \in {"disconnect", "aborted"} /\ si' = si
        /\ pc = "disconnect" =>
              /\ Issued("disconnect", 0, 0, 0, <<>>)
              /\ pc' = "station" /\ si' = si + 1
        /\ pc \notin {"done", "aborted"} ]_vars

\* the driver is writing to the first station of the second gateway after
\* the connect to the one station before it failed
C17_Witness ==
    /\ pc = "write" /\ gi = 2 /\ si = 1
    /\ client = 2 /\ nextCtx = 1 /\ ctx = 1
    /\ last.op = "read_registers" /\ last.function_code = 3

\* C18: the driver run ends with success after the last endpoint whatever
\* the calls return, and an endpoint whose connect succeeded gets its
\* disconnect() call.
C18_DriverCompletes ==
    /\ <>(pc = "done")
    /\ (pc = "read04") ~> (last.op = "disconnect")

====
